---- MODULE Spec2Model ----
(***************************************************************************)
(* Story playback controller and like reconciler of foto-vista-hub:        *)
(* StoriesCarousel.tsx (selection of the user sequence shown) and          *)
(* StoryViewer.tsx (cursor, progress, pause, likes).                       *)
(*                                                                         *)
(* React state is modelled in two layers.  The variables selected,         *)
(* currentIndex, progress, isPaused and likes hold the component state     *)
(* with every queued update applied (functional updaters see exactly this  *)
(* value as `prev`).  The record r holds the values of the last committed  *)
(* render: these are what the closures of the handlers, of the interval    *)
(* callback and of the media listeners read.  Render commits the state     *)
(* into r and runs the effects.  Updates made in a click or key handler    *)
(* are rendered before any other event is handled (mustRender); updates    *)
(* made by timers, media events and promise continuations are batched and  *)
(* may be followed by further events before the render.                    *)
(***************************************************************************)
EXTENDS Integers, Sequences, FiniteSets, TLC

\* ------------------------------------------------------------------ bounds
MaxTotalStories == 3
VideoDur == 2
MaxOthers == 1
MaxToggles == 2

\* ------------------------------------------------------- program constants
duration == 5000
interval == 50
increment == (interval * 100) \div duration

Null == -1
NoEntry == [isLiked |-> FALSE, count |-> -1]

VARIABLES
  all,           \* allUsersStories: sequence of users, each a sequence of stories (TRUE = video url)
  user,          \* useAuth().user is non-null
  selected,      \* StoriesCarousel.selectedUserStories: index of the user, or Null
  currentIndex,  \* StoryViewer state
  progress,      \* StoryViewer state
  isPaused,      \* StoryViewer state
  likes,         \* StoryViewer state: story id -> entry, NoEntry when the key is absent
  r,             \* values of the last committed render (closures)
  crashed,       \* the last render threw (currentStory undefined)
  mustRender,    \* a discrete event was handled: React renders before the next event
  video,         \* the <video> element: position, paused, ended fired
  rows,          \* story_likes rows (story, viewer) of the backend
  others,        \* story_likes rows of other users, per story
  net,           \* requests in flight
  nextId,        \* issue order of the toggle requests
  isAnimating,   \* StoryViewer state
  animTimers,    \* pending setTimeout(() => setIsAnimating(false), 400) callbacks
  lk,            \* history: the last like event (toggle, backend step, response)
  tg,            \* history: per story, the toggles of this viewer instance: n issued, ok landed
                 \* without error, alone = none issued while another toggle on the story was
                 \* in flight, rev = one took effect before an earlier one, clean = no
                 \* fetchLikes response landed since the first, first = the storyLike the
                 \* first toggle read, wrote = the entry the last toggle wrote, chain = every
                 \* later toggle read the entry the one before it wrote
  last,          \* history: the last event handled
  advs,          \* history: goToNextStory calls since the last render
  track,         \* the exploration: "nav" (unbounded navigation, with its history), "like", "race",
                 \* "session"
  navs,          \* number of user navigation events so far (counted where they are bounded)
  run,           \* history: length of the run of settled Advances since the viewer opened at (0,0)
  timerOn,       \* the setInterval of the auto-advance effect is running
  listenersOn,   \* 'timeupdate' and 'ended' listeners are attached to the video element
  keysOn,        \* the 'keydown' listener is attached to window
  carousel,      \* StoriesCarousel: the tables it reads and the state of fetchStories
  post,          \* PostCard: its state, its rendered closure, the likes row and the calls in flight
  search,        \* UserSearch: its state, the debounce timer and the requests in flight
  chat,          \* StartChat: the conversation tables and each session's handleStartChat
  url,           \* mediaUtils: the URL given to isVideoUrl, a sequence of characters
  classified     \* mediaUtils: the result of isVideoUrl(url), "none" before the call

vars == <<all, user, selected, currentIndex, progress, isPaused, likes, r, crashed,
          mustRender, video, rows, others, net, nextId, isAnimating, animTimers, lk, tg,
          last, advs, track, navs, run, timerOn, listenersOn, keysOn,
          carousel, post, search, chat, url, classified>>

\* ------------------------------------------------------------ story lists
RECURSIVE CountTrue(_)
CountTrue(s) == IF s = <<>> THEN 0 ELSE (IF Head(s) THEN 1 ELSE 0) + CountTrue(Tail(s))

RECURSIVE totalStoryCount(_)
totalStoryCount(S) == IF S = <<>> THEN 0 ELSE Len(Head(S)) + totalStoryCount(Tail(S))

RECURSIVE Videos(_)
Videos(S) == IF S = <<>> THEN 0 ELSE CountTrue(Head(S)) + Videos(Tail(S))

\* every list of non-empty sequences with at most MaxTotalStories stories, at most one a video
UserSeqs == {s \in UNION {[1..k -> BOOLEAN] : k \in 1..MaxTotalStories} : CountTrue(s) <= 1}
Configs == {S \in UNION {[1..n -> UserSeqs] : n \in 1..MaxTotalStories} :
              totalStoryCount(S) <= MaxTotalStories /\ Videos(S) <= 1}
\* the lists the like reconciler is explored on: image stories, one user or two
LikeConfigs == {<<<<FALSE>>>>, <<<<FALSE, FALSE>>>>, <<<<FALSE>>, <<FALSE>>>>}

NumUsers == Len(all)
StoriesLen(u) == Len(all[u + 1])
ValidIndex(u, i) == i >= 0 /\ i < StoriesLen(u)
\* isVideoUrl(currentStory.image_url) for the story at (u, i)
isVideo(u, i) == all[u + 1][i + 1]
\* currentStory.id: position of the story in the concatenation of all sequences
StoryId(u, i) == totalStoryCount(SubSeq(all, 1, u)) + i
StoryIds == 0..(totalStoryCount(all) - 1)

hasNextUser(c) == c.u < NumUsers - 1
hasPrevUser(c) == c.u > 0

\* ------------------------------------------------------------- navigation
\* c is the closure (a render record), st the state [sel, idx, prog] the updates apply to.
goToNextStory_wraps(c, st) ==
  IF c.i < StoriesLen(c.u) - 1
    THEN [st EXCEPT !.idx = st.idx + 1, !.prog = 0]
  ELSE IF hasNextUser(c)
    THEN [sel |-> c.u + 1, idx |-> 0, prog |-> 0]
  ELSE [sel |-> 0, idx |-> 0, prog |-> 0]

goToNextStory_noNextUser(c, st) ==
  IF c.i < StoriesLen(c.u) - 1
    THEN [st EXCEPT !.idx = st.idx + 1, !.prog = 0]
  ELSE [st EXCEPT !.sel = Null]

goToNextStory(c, st) ==
  IF c.i < StoriesLen(c.u) - 1
    THEN [st EXCEPT !.idx = st.idx + 1, !.prog = 0]
  ELSE IF hasNextUser(c)
    THEN [sel |-> c.u + 1, idx |-> 0, prog |-> 0]
  ELSE [st EXCEPT !.sel = Null]

goToPrevStory_closes(c, st) ==
  IF c.i > 0
    THEN [st EXCEPT !.idx = st.idx - 1, !.prog = 0]
  ELSE IF hasPrevUser(c)
    THEN [sel |-> c.u - 1, idx |-> StoriesLen(c.u - 1) - 1, prog |-> 0]
  ELSE [st EXCEPT !.sel = Null]

goToPrevStory_keepsProgress(c, st) ==
  IF c.i > 0
    THEN [st EXCEPT !.idx = st.idx - 1]
  ELSE IF hasPrevUser(c)
    THEN [sel |-> c.u - 1, idx |-> StoriesLen(c.u - 1) - 1, prog |-> 0]
  ELSE st

goToPrevStory(c, st) ==
  IF c.i > 0
    THEN [st EXCEPT !.idx = st.idx - 1, !.prog = 0]
  ELSE IF hasPrevUser(c)
    THEN [sel |-> c.u - 1, idx |-> StoriesLen(c.u - 1) - 1, prog |-> 0]
  ELSE st

Cursor == [sel |-> selected, idx |-> currentIndex, prog |-> progress]

\* The handlers of the committed render are attached and the component is alive.
Mounted == r.open /\ ~crashed
\* The closure of the committed render sees the state as it is now.
Fresh == r.open /\ r.u = selected /\ r.i = currentIndex /\ r.paused = isPaused
           /\ r.likes = likes /\ r.user = user
Dirty == \/ r.open # (selected # Null)
         \/ r.open /\ ~Fresh

CursorFresh == r.open /\ r.u = selected /\ r.i = currentIndex

NoLikes == [x \in StoryIds |-> NoEntry]
Unmounted == [open |-> FALSE, u |-> 0, i |-> 0, paused |-> FALSE, likes |-> NoLikes, user |-> FALSE]
NoVideo == [t |-> 0, paused |-> TRUE, ended |-> FALSE]

likeHist == <<isAnimating, animTimers, lk, tg>>
fx == <<timerOn, listenersOn, keysOn>>
\* the state of the other components
aux == <<carousel, post, search, chat, url, classified>>
viewer == <<all, user, selected, currentIndex, progress, isPaused, likes, r, crashed,
            mustRender, video, rows, others, net, nextId, isAnimating, animTimers, lk, tg,
            last, advs, track, navs, run, timerOn, listenersOn, keysOn>>

\* history records
Other(op) == [op |-> IF track # "nav" THEN "-" ELSE op, fresh |-> FALSE, u |-> 0, s |-> 0,
              adv |-> FALSE, pu |-> Null, ps |-> 0]
Ev(op, adv) == IF track # "nav" THEN Other(op)
               ELSE [op |-> op, fresh |-> CursorFresh, u |-> selected, s |-> currentIndex,
                     adv |-> adv, pu |-> Null, ps |-> 0]
\* the like reconciler is explored for a bounded number of user navigation events
NavCap == IF track = "race" THEN 1 ELSE 2
NavAllowed == track = "nav" \/ navs < NavCap
\* ... and for a bounded number of toggles
ToggleCap == IF track = "race" THEN MaxToggles ELSE MaxToggles - 1
NavCounted == IF track = "nav" THEN navs ELSE navs + 1

RunBroken == [pure |-> FALSE, steps |-> 0]
RunAdvance == IF run.pure /\ CursorFresh THEN [run EXCEPT !.steps = run.steps + 1]
              ELSE RunBroken
RunStart(u) == IF track = "nav" /\ ~r.open /\ selected = Null /\ u = 0
                 THEN [pure |-> TRUE, steps |-> 0] ELSE RunBroken

ApplyNav(st) == /\ selected' = st.sel
                /\ currentIndex' = st.idx
                /\ progress' = st.prog

\* ----------------------------------------------------------- user events
\* StoriesCarousel: onClick of a story circle, setSelectedUserStories(userStories)
SelectUser(u) ==
  /\ ~crashed /\ ~mustRender
  /\ u # selected
  /\ selected' = u
  /\ NavAllowed /\ navs' = NavCounted
  /\ mustRender' = TRUE
  /\ last' = [Other("select") EXCEPT !.fresh = (track = "nav" /\ CursorFresh)]
  /\ run' = RunStart(u)
  /\ UNCHANGED <<likeHist, fx, aux, track, all, user, currentIndex, progress, isPaused, likes, r, crashed, video, rows,
                 others, net, nextId, advs>>

\* click on "Next story" / the right arrow, or key ArrowRight
UserNext ==
  /\ Mounted /\ ~mustRender
  /\ ApplyNav(goToNextStory(r, Cursor))
  /\ NavAllowed /\ navs' = NavCounted
  /\ mustRender' = TRUE
  /\ last' = Ev("next", TRUE)
  /\ advs' = IF track # "nav" THEN 0 ELSE advs + 1
  /\ run' = RunAdvance
  /\ UNCHANGED <<likeHist, fx, aux, track, all, user, isPaused, likes, r, crashed, video, rows, others, net, nextId>>

\* click on "Previous story" / the left arrow, or key ArrowLeft
UserPrev ==
  /\ Mounted /\ ~mustRender
  /\ ApplyNav(goToPrevStory(r, Cursor))
  /\ NavAllowed /\ navs' = NavCounted
  /\ mustRender' = TRUE
  /\ last' = [Ev("prev", FALSE) EXCEPT
                !.pu = IF last.op = "next" /\ last.fresh /\ selected # Null /\ CursorFresh
                         THEN last.u ELSE Null,
                !.ps = IF last.op = "next" /\ last.fresh /\ selected # Null /\ CursorFresh
                         THEN last.s ELSE 0]
  /\ run' = RunBroken
  /\ UNCHANGED <<likeHist, fx, aux, track, all, user, isPaused, likes, r, crashed, video, rows, others, net, nextId,
                 advs>>

\* click on the X button, or key Escape: onClose()
UserClose ==
  /\ Mounted /\ ~mustRender
  /\ selected' = Null
  /\ NavAllowed /\ navs' = NavCounted
  /\ mustRender' = TRUE
  /\ last' = Other("close")
  /\ run' = RunBroken
  /\ UNCHANGED <<likeHist, fx, aux, track, all, user, currentIndex, progress, isPaused, likes, r, crashed, video, rows,
                 others, net, nextId, advs>>

\* key ' ': setIsPaused(prev => !prev) and play()/pause() on the video element, if any
KeySpace ==
  /\ Mounted /\ ~mustRender
  /\ isPaused' = ~isPaused
  /\ video' = IF isVideo(r.u, r.i) THEN [video EXCEPT !.paused = ~video.paused] ELSE video
  /\ mustRender' = TRUE
  /\ last' = Other("pause")
  /\ UNCHANGED <<likeHist, fx, aux, track, navs, all, user, selected, currentIndex, progress, likes, r, crashed, rows, others,
                 net, nextId, advs, run>>

\* ------------------------------------------------------- progress sources
\* The interval callback of the auto-advance effect: runs while the committed render is an
\* unpaused image story.  A tick is at least `interval` ms after the previous one, so a render
\* that is already scheduled comes first.
TimerLive == Mounted /\ timerOn
ListenersLive == Mounted /\ listenersOn
KeysLive == Mounted /\ keysOn

\* the auto-advance effect starts its interval: if (isVideo || isPaused) return
TimerEffect_ignoresVideo(u, i, paused) == ~paused

TimerEffect(u, i, paused) == ~(isVideo(u, i) \/ paused)

\* the video effect attaches its listeners: if (!isVideo || !videoRef.current) return
VideoEffect(u, i) == isVideo(u, i)

\* the test of the setProgress updater: if (prev >= 100)
Expired_late(prev) == prev > 100

Expired(prev) == prev >= 100

TimerTick ==
  /\ TimerLive /\ ~mustRender /\ ~Dirty
  /\ IF Expired(progress)
       THEN /\ selected' = goToNextStory(r, Cursor).sel
            /\ currentIndex' = goToNextStory(r, Cursor).idx
            /\ progress' = 0
            /\ last' = Ev("tick", TRUE)
            /\ advs' = IF track # "nav" THEN 0 ELSE advs + 1
            /\ run' = RunAdvance
       ELSE /\ progress' = progress + increment
            /\ last' = Other("tick")
            /\ UNCHANGED <<selected, currentIndex, advs, run>>
  /\ UNCHANGED <<likeHist, fx, aux, track, navs, all, user, isPaused, likes, r, crashed, mustRender, video, rows, others, net,
                 nextId>>

\* (video.currentTime / video.duration) * 100, in whole percent
MediaProgress_half(t) == (t * 50) \div VideoDur

MediaProgress(t) == (t * 100) \div VideoDur

\* the video plays on by one time unit and fires 'timeupdate': handleTimeUpdate
VideoTimeUpdate ==
  /\ ListenersLive /\ ~mustRender
  /\ ~video.paused /\ video.t < VideoDur
  /\ video' = [video EXCEPT !.t = video.t + 1]
  /\ progress' = MediaProgress(video.t + 1)
  /\ last' = Other("time")
  /\ UNCHANGED <<likeHist, fx, aux, track, navs, all, user, selected, currentIndex, isPaused, likes, r, crashed, mustRender,
                 rows, others, net, nextId, advs, run>>

\* the playing video reached its end and fires 'ended': handleEnded
VideoEnded ==
  /\ ListenersLive /\ ~mustRender
  /\ ~video.paused /\ video.t = VideoDur /\ ~video.ended
  /\ video' = [video EXCEPT !.ended = TRUE, !.paused = TRUE]
  /\ ApplyNav(goToNextStory(r, Cursor))
  /\ last' = Ev("ended", TRUE)
  /\ advs' = IF track # "nav" THEN 0 ELSE advs + 1
  /\ run' = RunAdvance
  /\ UNCHANGED <<likeHist, fx, aux, track, navs, all, user, isPaused, likes, r, crashed, mustRender, rows, others, net, nextId>>

\* ---------------------------------------------------------------- render
FetchReq(x) == [kind |-> "fetch", story |-> x, id |-> 0, st |-> "sent", liked |-> FALSE,
                cnt |-> 0, orphan |-> FALSE, pre |-> NoEntry]
NoToggles == [x \in StoryIds |-> [n |-> 0, ok |-> 0, alone |-> TRUE, rev |-> FALSE, clean |-> TRUE,
                                   first |-> NoEntry, wrote |-> NoEntry, chain |-> TRUE]]
NoLk == [op |-> "none", kind |-> "none", story |-> 0, err |-> FALSE, orphan |-> FALSE,
         pre |-> NoEntry, notice |-> "none"]

\* the <video> element after the commit and the video progress effect
VideoAfterRender ==
  LET mount == ~r.open
      wasVideo == ~mount /\ isVideo(r.u, r.i)
      srcChanged == mount \/ StoryId(r.u, r.i) # StoryId(selected, currentIndex)
      effectRuns == mount \/ r.i # currentIndex \/ ~wasVideo \/ r.u # selected \/ r.user # user
      el == IF ~wasVideo \/ srcChanged THEN NoVideo ELSE video
  IN IF ~isVideo(selected, currentIndex) THEN NoVideo
     ELSE IF effectRuns
       THEN (IF el.t = VideoDur THEN [t |-> 0, paused |-> FALSE, ended |-> FALSE]
             ELSE [el EXCEPT !.paused = FALSE])
     ELSE el

\* a timer or listener after the cleanup function of its effect has run
AfterCleanup_leaks(on) == on

AfterCleanup(on) == FALSE

\* goToNextStory is a new function: its dependencies changed (onNavigateUser and onClose are
\* new functions in every render of StoriesCarousel)
CallbacksChanged == ~r.open \/ r.u # selected \/ r.user # user \/ r.i # currentIndex
\* dependencies [currentIndex, goToNextStory, isVideo, isPaused] of the auto-advance effect
TimerDepsChanged == \/ CallbacksChanged
                    \/ isVideo(r.u, r.i) # isVideo(selected, currentIndex)
                    \/ r.paused # isPaused
\* dependencies [currentIndex, isVideo, goToNextStory] of the video effect
VideoDepsChanged == \/ CallbacksChanged
                    \/ isVideo(r.u, r.i) # isVideo(selected, currentIndex)

Render ==
  /\ ~crashed
  /\ mustRender \/ Dirty
  /\ mustRender' = FALSE
  /\ advs' = 0
  /\ IF selected = Null
       THEN \* the viewer is unmounted: its state is dropped; a fetchLikes response has nothing
            \* left to do, a handleLike continuation can still show its notice
            /\ r' = Unmounted
            /\ currentIndex' = 0 /\ progress' = 0 /\ isPaused' = FALSE
            /\ likes' = NoLikes
            /\ video' = NoVideo
            /\ net' = {[q EXCEPT !.orphan = TRUE] : q \in {q \in net : q.kind # "fetch"}}
            /\ isAnimating' = FALSE
            /\ tg' = NoToggles
            \* the cleanups of the effects: clearInterval, removeEventListener
            /\ timerOn' = AfterCleanup(timerOn)
            /\ listenersOn' = AfterCleanup(listenersOn)
            /\ keysOn' = AfterCleanup(keysOn)
            /\ UNCHANGED crashed
     ELSE IF ~ValidIndex(selected, currentIndex)
       THEN \* currentStory is undefined: currentStory.image_url throws
            /\ crashed' = TRUE
            /\ r' = [open |-> TRUE, u |-> selected, i |-> currentIndex, paused |-> isPaused,
                     likes |-> likes, user |-> user]
            \* no error boundary: React unmounts the tree, the cleanups run
            /\ timerOn' = FALSE /\ listenersOn' = FALSE /\ keysOn' = FALSE
            /\ UNCHANGED <<currentIndex, progress, isPaused, likes, video, net, isAnimating, tg>>
     ELSE /\ r' = [open |-> TRUE, u |-> selected, i |-> currentIndex, paused |-> isPaused,
                   likes |-> likes, user |-> user]
          \* fetch likes effect, deps [currentStory?.id, user?.id]
          /\ net' = IF ~r.open \/ StoryId(r.u, r.i) # StoryId(selected, currentIndex)
                        \/ r.user # user
                      THEN net \cup {FetchReq(StoryId(selected, currentIndex))}
                      ELSE net
          \* reset effect, deps [userStories.user_id]
          /\ IF ~r.open \/ r.u # selected
               THEN currentIndex' = 0 /\ progress' = 0
               ELSE UNCHANGED <<currentIndex, progress>>
          /\ video' = VideoAfterRender
          \* each effect whose dependencies changed runs its cleanup and then its body
          /\ timerOn' = IF TimerDepsChanged
                          THEN TimerEffect(selected, currentIndex, isPaused) ELSE timerOn
          /\ listenersOn' = IF VideoDepsChanged
                              THEN VideoEffect(selected, currentIndex) ELSE listenersOn
          /\ keysOn' = TRUE
          /\ UNCHANGED <<crashed, isPaused, likes, isAnimating, tg>>
  /\ UNCHANGED <<aux, track, navs, all, user, selected, rows, others, nextId, animTimers, lk,
                 last, run>>


\* ------------------------------------------------------------------ likes
\* likes[currentStory.id] || { isLiked: false, count: 0 }
Eff(e) == IF e = NoEntry THEN [isLiked |-> FALSE, count |-> 0] ELSE e

\* the optimistic entry written by handleLike
Flip_countUp(storyLike) == [isLiked |-> ~storyLike.isLiked, count |-> storyLike.count + 1]

Flip(storyLike) ==
  IF storyLike.isLiked THEN [isLiked |-> FALSE, count |-> storyLike.count - 1]
  ELSE [isLiked |-> TRUE, count |-> storyLike.count + 1]

\* the entry written when the remote call returned an error; q.liked and q.cnt are the
\* storyLike the handler read
Rollback_keepsCount(q) == [isLiked |-> q.liked, count |-> Flip([isLiked |-> q.liked, count |-> q.cnt]).count]

Rollback(q) == [isLiked |-> q.liked, count |-> q.cnt]

\* the key the continuation of handleLike writes to: currentStory.id of its own closure
RollbackKey_current(q) == IF selected # Null /\ ValidIndex(selected, currentIndex)
                            THEN StoryId(selected, currentIndex) ELSE q.story

RollbackKey(q) == q.story

\* the likes map after a remote call that returned no error: handleLike does nothing
OnSuccess_resync(q, ls) == [ls EXCEPT ![q.story] = [isLiked |-> (q.kind = "insert"), count |-> Eff(ls[q.story]).count]]

OnSuccess(q, ls) == ls

\* toast.error of the continuation of handleLike
ErrorNotice(q) == IF q.kind = "fetch" \/ q.st # "err" THEN "none"
                  ELSE IF q.kind = "delete" THEN "Failed to unlike story"
                  ELSE "Failed to like story"

ToggleInFlight(x) == \E q \in net : q.kind # "fetch" /\ q.story = x
FetchInFlight(x) == \E q \in net : q.kind = "fetch" /\ q.story = x

\* the remote operation of handleLike: if (storyLike.isLiked) delete else insert
RemoteOp_alwaysInsert(storyLike) == "insert"

RemoteOp(storyLike) == IF storyLike.isLiked THEN "delete" ELSE "insert"

\* the guard of handleLike: if (!user || !currentStory); currentStory is defined in every
\* render that did not throw
AuthRequired_never(c) == FALSE

AuthRequired(c) == ~c.user

\* click on the like button: handleLike up to its await
ClickLike ==
  /\ Mounted /\ ~mustRender
  /\ mustRender' = TRUE
  /\ IF AuthRequired(r)
       THEN /\ lk' = [NoLk EXCEPT !.op = "rejected", !.notice = "Please sign in to like stories"]
            /\ UNCHANGED <<likes, net, nextId, isAnimating, animTimers, tg>>
       ELSE LET x == StoryId(r.u, r.i)
                storyLike == Eff(r.likes[x])
            IN /\ nextId <= ToggleCap
               /\ isAnimating' = TRUE
               /\ animTimers' = animTimers + 1
               /\ likes' = [likes EXCEPT ![x] = Flip(storyLike)]
               /\ net' = net \cup {[kind |-> RemoteOp(storyLike),
                                     story |-> x, id |-> nextId, st |-> "sent",
                                     liked |-> storyLike.isLiked, cnt |-> storyLike.count,
                                     orphan |-> FALSE, pre |-> Eff(r.likes[x])]}
               /\ nextId' = nextId + 1
               /\ lk' = [NoLk EXCEPT !.op = "toggle", !.story = x]
               /\ tg' = [tg EXCEPT ![x] = [n |-> @.n + 1, ok |-> @.ok,
                                            alone |-> @.alone /\ ~ToggleInFlight(x),
                                            rev |-> @.rev,
                                            clean |-> @.clean,
                                            first |-> IF @.n = 0 THEN storyLike ELSE @.first,
                                            wrote |-> Flip(storyLike),
                                            chain |-> @.chain /\ (@.n = 0 \/ storyLike = @.wrote)]]
  /\ UNCHANGED <<fx, aux, track, navs, all, user, selected, currentIndex, progress, isPaused, r, crashed, video, rows,
                 others, last, advs, run>>

\* the 400 ms timeout of handleLike: setIsAnimating(false); the viewer never clears it
AnimTimeout ==
  /\ animTimers > 0 /\ ~mustRender
  /\ animTimers' = animTimers - 1
  /\ isAnimating' = FALSE
  /\ UNCHANGED <<fx, aux, track, navs, all, user, selected, currentIndex, progress, isPaused, likes, r, crashed,
                 mustRender, video, rows, others, net, nextId, lk, tg, last, advs, run>>

\* the session ends: useAuth().user becomes null
SignOut ==
  /\ user /\ ~mustRender /\ ~crashed
  /\ user' = FALSE
  /\ UNCHANGED <<fx, aux, track, navs, all, selected, currentIndex, progress, isPaused, likes, r, crashed, mustRender,
                 video, rows, others, net, nextId, likeHist, last, advs, run>>

\* the backend handles a request: select / insert / delete on story_likes, with UNIQUE(story_id,
\* user_id) and the row level security policies; out is the outcome the client is told
Serve(q, out) ==
  /\ q \in net /\ q.st = "sent"
  /\ \/ out = "err"
     \/ q.kind = "fetch"
     \/ q.kind = "delete"
     \/ q.kind = "insert" /\ user /\ q.story \notin rows
  /\ rows' = IF out = "err" \/ ~user THEN rows
             ELSE IF q.kind = "insert" THEN rows \cup {q.story}
             ELSE IF q.kind = "delete" THEN rows \ {q.story}
             ELSE rows
  /\ net' = (net \ {q}) \cup
            {IF q.kind = "fetch"
               THEN [q EXCEPT !.st = out,
                              !.liked = (out = "ok" /\ user /\ q.story \in rows),
                              !.cnt = IF out = "ok" /\ user
                                        THEN others[q.story] + (IF q.story \in rows THEN 1 ELSE 0)
                                        ELSE 0]
               ELSE [q EXCEPT !.st = out]}
  /\ tg' = IF q.kind # "fetch" /\ out = "ok" /\ ~q.orphan
              /\ (\E p \in net : p.kind # "fetch" /\ p.story = q.story /\ p.id < q.id
                                   /\ p.st = "sent" /\ ~p.orphan)
             THEN [tg EXCEPT ![q.story].rev = TRUE]
             ELSE tg
  /\ lk' = [NoLk EXCEPT !.op = "serve"]
  /\ UNCHANGED <<fx, aux, track, navs, all, user, selected, currentIndex, progress, isPaused, likes, r, crashed,
                 mustRender, video, others, nextId, isAnimating, animTimers, last, advs,
                 run>>

\* a response arrives: the continuation after the await of fetchLikes or of handleLike
Land(q) ==
  /\ q \in net /\ q.st # "sent" /\ ~mustRender
  /\ net' = net \ {q}
  /\ LET live == ~q.orphan /\ ~crashed
     IN /\ likes' = IF ~live THEN likes
                    ELSE IF q.kind = "fetch"
                      THEN [likes EXCEPT ![q.story] = [isLiked |-> q.liked, count |-> q.cnt]]
                    ELSE IF q.st = "err"
                      THEN [likes EXCEPT ![RollbackKey(q)] = Rollback(q)]
                    ELSE OnSuccess(q, likes)
        /\ tg' = IF ~live THEN tg
                 ELSE IF q.kind = "fetch"
                   THEN [tg EXCEPT ![q.story].clean = IF @ /\ tg[q.story].n > 0 THEN FALSE ELSE @]
                 ELSE IF q.st = "ok" THEN [tg EXCEPT ![q.story].ok = @ + 1]
                 ELSE tg
        /\ lk' = [op |-> "land", kind |-> q.kind, story |-> q.story, err |-> (q.st = "err"),
                  orphan |-> ~live, pre |-> IF q.kind = "fetch" THEN NoEntry ELSE q.pre,
                  notice |-> ErrorNotice(q)]
  /\ UNCHANGED <<fx, aux, track, navs, all, user, selected, currentIndex, progress, isPaused, r, crashed, mustRender,
                 video, rows, others, nextId, isAnimating, animTimers, last, advs, run>>

\* ------------------------------------------------------------------ init
\* a session of the viewer with likes, the animation timeout and a sign-out, on one story
SessionConfigs == {<<<<FALSE>>>>}

\* no URL has been given to the classifier
MediaIdle == url = <<>> /\ classified = "none"

\* the carousel has not fetched: no story rows, the list is the useState value []
CarouselIdle ==
  carousel = [pc |-> "idle", stories |-> <<>>, follows |-> {}, followingIds |-> {},
              userStoriesMap |-> <<>>, usersWithStories |-> <<>>,
              currentUserHasStory |-> FALSE, profiles |-> <<>>]

\* a PostCard of a post nobody likes, never clicked
PostCardOf(mine, othersCount) ==
  [isLiked |-> mine, likesCount |-> othersCount + (IF mine THEN 1 ELSE 0),
   shown |-> mine, initial |-> othersCount + (IF mine THEN 1 ELSE 0),
   row |-> mine, calls |-> {}, clicks |-> 0, netOk |-> 0, notice |-> "none"]

PostIdle == post = PostCardOf(FALSE, 0)

\* UserSearch after its first render: the effect has set the debounce timer for query ''
SearchMounted ==
  search = [query |-> <<>>, results |-> {}, isOpen |-> FALSE, isLoading |-> FALSE,
            debounce |-> TRUE, calls |-> {}, sent |-> 0, answered |-> "none"]

\* the sessions that show a StartChat button, the user of each and the user it targets
Sessions == {"a1", "a2", "b1"}
UserOf(s) == IF s = "b1" THEN "B" ELSE "A"
targetUserId(s) == IF s = "b1" THEN "A" ELSE "B"

\* handleStartChat is not running in session s
ChatIdleSession == [pc |-> "idle", conversationIds |-> {}, newConv |-> Null, at |-> Null,
                    notice |-> FALSE]

\* empty conversation tables, no handleStartChat running
ChatIdle ==
  chat = [conversations |-> {}, participants |-> {}, sess |-> [s \in Sessions |-> ChatIdleSession]]

\* the other components are idle
InitAux == MediaIdle /\ CarouselIdle /\ PostIdle /\ SearchMounted /\ ChatIdle

InitViewer(configs, rowSets, otherCounts, tr) ==
  /\ all \in configs
  /\ track = tr
  /\ navs = 0
  /\ user = TRUE
  /\ selected = Null
  /\ currentIndex = 0 /\ progress = 0 /\ isPaused = FALSE
  /\ likes = NoLikes
  /\ r = Unmounted
  /\ crashed = FALSE
  /\ mustRender = FALSE
  /\ video = NoVideo
  /\ rows \in rowSets
  /\ others \in otherCounts
  /\ net = {}
  /\ nextId = 1
  /\ isAnimating = FALSE
  /\ animTimers = 0
  /\ lk = NoLk
  /\ tg = NoToggles
  /\ last = Other("init")
  /\ advs = 0
  /\ run = RunBroken
  /\ timerOn = FALSE /\ listenersOn = FALSE /\ keysOn = FALSE

InitWith(configs, rowSets, otherCounts, tr) ==
  /\ InitViewer(configs, rowSets, otherCounts, tr)
  /\ InitAux

\* the story viewer is not in use
ViewerIdle ==
  /\ all \in SessionConfigs
  /\ InitViewer({all}, {{}}, {[x \in StoryIds |-> 0]}, "idle")

InitNav ==
  /\ all \in Configs
  /\ InitWith({all}, {{}}, {[x \in StoryIds |-> 0]}, "nav")

NextNav ==
  \/ \E u \in 0..(NumUsers - 1) : SelectUser(u)
  \/ UserNext
  \/ UserPrev
  \/ UserClose
  \/ KeySpace
  \/ TimerTick
  \/ VideoTimeUpdate
  \/ VideoEnded
  \/ Render

SpecNav == InitNav /\ [][NextNav]_vars

\* the rows of other users: the same number on every story
OtherCounts == {[x \in StoryIds |-> k] : k \in 0..MaxOthers}

InitLike ==
  /\ all \in LikeConfigs
  /\ InitWith({all}, SUBSET StoryIds, OtherCounts, "like")

NextLike ==
  \/ \E u \in 0..(NumUsers - 1) : SelectUser(u)
  \/ UserNext
  \/ UserPrev
  \/ UserClose
  \/ ClickLike
  \/ \E q \in net, out \in {"ok", "err"} : Serve(q, out)
  \/ \E q \in net : Land(q)
  \/ Render

SpecLike == InitLike /\ [][NextLike]_vars

\* overlapping toggles on the story the viewer was opened on
InitRace ==
  /\ all \in LikeConfigs
  /\ InitWith({all}, SUBSET StoryIds, OtherCounts, "race")

NextRace ==
  \/ \E u \in 0..(NumUsers - 1) : SelectUser(u)
  \/ ClickLike
  \/ \E q \in net, out \in {"ok", "err"} : Serve(q, out)
  \/ \E q \in net : Land(q)
  \/ Render

SpecRace == InitRace /\ [][NextRace]_vars

InitSession ==
  /\ all \in SessionConfigs
  /\ InitWith({all}, SUBSET StoryIds, {[x \in StoryIds |-> 0]}, "session")

NextSession ==
  \/ \E u \in 0..(NumUsers - 1) : SelectUser(u)
  \/ UserClose
  \/ ClickLike
  \/ AnimTimeout
  \/ SignOut
  \/ \E q \in net, out \in {"ok", "err"} : Serve(q, out)
  \/ \E q \in net : Land(q)
  \/ Render

SpecSession == InitSession /\ [][NextSession]_vars

Next ==
  \/ NextNav
  \/ NextLike
  \/ AnimTimeout
  \/ SignOut

Init ==
  /\ all \in Configs
  /\ InitWith({all}, SUBSET StoryIds, OtherCounts, "nav")

Spec == Init /\ [][Next]_vars

\* ------------------------------------------------------------ mediaUtils.isVideoUrl
MaxUrlLen == 6

\* the characters URLs are built from
UrlChars == {".", "/", "m", "p", "4", "M"}

Urls == UNION {[1..n -> UrlChars] : n \in 0..MaxUrlLen}

videoExtensions ==
  << <<".", "m", "p", "4">>, <<".", "w", "e", "b", "m">>, <<".", "m", "o", "v">>,
     <<".", "a", "v", "i">>, <<".", "m", "k", "v">>, <<".", "m", "4", "v">> >>

\* String.prototype.toLowerCase, one character
lowerChar(c) == IF c = "M" THEN "m" ELSE c

toLowerCase(s) == [i \in 1..Len(s) |-> lowerChar(s[i])]

\* String.prototype.includes
includes(s, sub) ==
  \E i \in 1..(Len(s) + 1) :
    /\ i + Len(sub) - 1 <= Len(s)
    /\ SubSeq(s, i, i + Len(sub) - 1) = sub

isVideoUrl(u) ==
  LET lowerUrl == toLowerCase(u)
  IN  \E e \in 1..Len(videoExtensions) : includes(lowerUrl, videoExtensions[e])

\* the classifier is called with the URL
Classify ==
  /\ classified = "none"
  /\ classified' = IF isVideoUrl(url) THEN "video" ELSE "image"
  /\ UNCHANGED <<url, carousel, post, search, chat, viewer>>

InitMedia ==
  /\ ViewerIdle
  /\ ChatIdle
  /\ SearchMounted
  /\ CarouselIdle
  /\ PostIdle
  /\ url \in Urls
  /\ classified = "none"

NextMedia == Classify

SpecMedia == InitMedia /\ [][NextMedia]_vars

\* ------------------------------------------------------------ StoriesCarousel.fetchStories
MaxStoryRows == 3
LastTime == 2

\* user ids: the signed-in user and two others
Me == "me"
Owners == {Me, "u1", "u2"}

\* created_at values; a story is recent from twentyFourHoursAgo on
Times == 0..LastTime
twentyFourHoursAgo == 1

\* the rows of table stories: row i has id i
StoryRows == [user_id : Owners, created_at : Times]
StoryTables == UNION {[1..n -> StoryRows] : n \in 0..MaxStoryRows}

Story(t, i) == [id |-> i, user_id |-> t[i].user_id, created_at |-> t[i].created_at]

\* the sequences that hold every element of S once
Perms(S) ==
  {q \in [1..Cardinality(S) -> S] : \A i, j \in 1..Cardinality(S) : i # j => q[i] # q[j]}

\* .in('user_id', followingIds).gte('created_at', ...).order('created_at', descending):
\* the possible results, rows of equal created_at in any order
StoriesQuery(t, followingIds) ==
  LET hit == {Story(t, i) : i \in {j \in 1..Len(t) : /\ t[j].user_id \in followingIds
                                                        /\ t[j].created_at >= twentyFourHoursAgo}}
  IN  {q \in Perms(hit) : \A i \in 1..(Len(q) - 1) : q[i].created_at >= q[i + 1].created_at}

\* userStoriesMap: the stories of each user in the order of storiesData, <<>> for no key
GroupByUser(storiesData) ==
  [o \in Owners |-> SelectSeq(storiesData, LAMBDA st : st.user_id = o)]

\* the comparator of stories.sort: a before b
Before_descending(a, b) == a.created_at >= b.created_at
Before(a, b) == a.created_at <= b.created_at

\* Array.prototype.sort with that comparator (stable): insertion from the left
RECURSIVE SortStories(_)
SortStories(q) ==
  IF q = <<>> THEN <<>>
  ELSE LET x    == q[Len(q)]
           done == SortStories(SubSeq(q, 1, Len(q) - 1))
           k    == Cardinality({i \in 1..Len(done) : Before(done[i], x)})
       IN  SubSeq(done, 1, k) \o <<x>> \o SubSeq(done, k + 1, Len(done))

\* unshift for the signed-in user, push for everyone else
AddUser_pushOnly(usersStories, entry) == Append(usersStories, entry)
AddUser(usersStories, entry) ==
  IF entry.user_id = Me THEN <<entry>> \o usersStories ELSE Append(usersStories, entry)

\* profiles.forEach(...) from profile i on
RECURSIVE BuildUsersStories(_, _, _, _)
BuildUsersStories(profiles, map, i, usersStories) ==
  IF i > Len(profiles) THEN usersStories
  ELSE BuildUsersStories(profiles, map, i + 1,
         AddUser(usersStories, [user_id |-> profiles[i], stories |-> SortStories(map[profiles[i]])]))

\* fetchStories is called; the follows query is sent
FetchStories ==
  /\ carousel.pc = "idle" /\ user
  /\ carousel' = [carousel EXCEPT !.pc = "follows"]
  /\ UNCHANGED <<post, search, chat, url, classified, viewer>>

\* the follows query answers; the stories query is sent
FollowsLanded ==
  /\ carousel.pc = "follows"
  /\ carousel' = [carousel EXCEPT !.pc = "stories", !.followingIds = carousel.follows \cup {Me}]
  /\ UNCHANGED <<post, search, chat, url, classified, viewer>>

\* the stories query answers: with an error, with no story, or with stories to group
StoriesLanded ==
  /\ carousel.pc = "stories"
  /\ \/ carousel' = [carousel EXCEPT !.pc = "done"]
     \/ \E storiesData \in StoriesQuery(carousel.stories, carousel.followingIds) :
          carousel' = IF storiesData = <<>>
                      THEN [carousel EXCEPT !.pc = "done", !.usersWithStories = <<>>,
                                            !.currentUserHasStory = FALSE]
                      ELSE [carousel EXCEPT !.pc = "profiles",
                                            !.userStoriesMap = GroupByUser(storiesData)]
  /\ UNCHANGED <<post, search, chat, url, classified, viewer>>

\* the profiles query answers: with an error, or with one profile per user id, in any order
ProfilesLanded ==
  /\ carousel.pc = "profiles"
  /\ \/ carousel' = [carousel EXCEPT !.pc = "done"]
     \/ LET map     == carousel.userStoriesMap
            userIds == {o \in Owners : map[o] # <<>>}
        IN  \E profiles \in Perms(userIds) :
              carousel' = [carousel EXCEPT
                             !.pc = "done", !.profiles = profiles,
                             !.usersWithStories = BuildUsersStories(profiles, map, 1, <<>>),
                             !.currentUserHasStory = Me \in userIds]
  /\ UNCHANGED <<post, search, chat, url, classified, viewer>>

InitCarousel ==
  /\ ViewerIdle
  /\ ChatIdle
  /\ SearchMounted
  /\ MediaIdle
  /\ PostIdle
  /\ \E t \in StoryTables, f \in SUBSET (Owners \ {Me}) :
       carousel = [pc |-> "idle", stories |-> t, follows |-> f, followingIds |-> {},
                   userStoriesMap |-> <<>>, usersWithStories |-> <<>>,
                   currentUserHasStory |-> FALSE, profiles |-> <<>>]

NextCarousel ==
  \/ FetchStories
  \/ FollowsLanded
  \/ StoriesLanded
  \/ ProfilesLanded

SpecCarousel == InitCarousel /\ [][NextCarousel]_vars

\* ------------------------------------------------------------ PostCard.handleLike
MaxPostClicks == 3

\* the like button is clicked: the handler of the last render reads its isLiked, sets the
\* optimistic state and sends the remote call; React renders before the next event
PostLike ==
  /\ user /\ post.clicks < MaxPostClicks
  /\ LET kind == IF post.shown THEN "delete" ELSE "insert"
         d    == IF post.shown THEN -1 ELSE 1
     IN  post' = [post EXCEPT !.isLiked = ~post.shown, !.shown = ~post.shown,
                              !.likesCount = post.likesCount + d,
                              !.clicks = post.clicks + 1,
                              !.calls = post.calls \cup
                                 {[id |-> post.clicks + 1, kind |-> kind, st |-> "sent"]},
                              !.notice = "none"]
  /\ UNCHANGED <<carousel, search, chat, url, classified, viewer>>

\* the backend executes a call: a delete removes the row if there is one, an insert adds it
\* and fails on UNIQUE(user_id, post_id); any call may fail
PostServe(q, out) ==
  /\ q \in post.calls /\ q.st = "sent"
  /\ (q.kind = "insert" /\ post.row) => out = "err"
  /\ post' = [post EXCEPT !.calls = (post.calls \ {q}) \cup {[q EXCEPT !.st = out]},
                           !.row = IF out = "ok" THEN q.kind = "insert" ELSE post.row,
                           !.netOk = IF out = "err" THEN post.netOk
                                     ELSE IF q.kind = "insert" THEN post.netOk + 1
                                     ELSE post.netOk - 1]
  /\ UNCHANGED <<carousel, search, chat, url, classified, viewer>>

\* the state the continuation of handleLike sets when its call returned an error
PostRollback(p, q) ==
  IF q.kind = "delete"
  THEN [p EXCEPT !.isLiked = TRUE, !.likesCount = p.likesCount + 1,
                 !.notice = "Failed to unlike post"]
  ELSE [p EXCEPT !.isLiked = FALSE, !.likesCount = p.likesCount - 1,
                 !.notice = "Failed to like post"]

\* the response arrives and the handler continues after its await
PostLand(q) ==
  /\ q \in post.calls /\ q.st # "sent"
  /\ LET p == [post EXCEPT !.calls = post.calls \ {q}, !.notice = "none"]
     IN  post' = IF q.st = "err" THEN PostRollback(p, q) ELSE p
  /\ UNCHANGED <<carousel, search, chat, url, classified, viewer>>

\* React renders the state a continuation has set
PostRender ==
  /\ post.shown # post.isLiked
  /\ post' = [post EXCEPT !.shown = post.isLiked]
  /\ UNCHANGED <<carousel, search, chat, url, classified, viewer>>

InitPost ==
  /\ ViewerIdle
  /\ ChatIdle
  /\ SearchMounted
  /\ MediaIdle
  /\ CarouselIdle
  /\ \E mine \in BOOLEAN, k \in 0..MaxOthers : post = PostCardOf(mine, k)

NextPost ==
  \/ PostLike
  \/ \E q \in post.calls, out \in {"ok", "err"} : PostServe(q, out)
  \/ \E q \in post.calls : PostLand(q)
  \/ PostRender

SpecPost == InitPost /\ [][NextPost]_vars

\* ------------------------------------------------------------ UserSearch
MaxQueryLen == 3
MaxSearches == 2

\* the characters typed into the search field
QueryChars == {"a", "b", " "}

\* the usernames of table profiles
Usernames == {<<"a", "b">>, <<"a", "b", "b">>}

\* String.prototype.trim
RECURSIVE trim(_)
trim(q) ==
  IF q = <<>> THEN q
  ELSE IF q[1] = " " THEN trim(SubSeq(q, 2, Len(q)))
  ELSE IF q[Len(q)] = " " THEN trim(SubSeq(q, 1, Len(q) - 1))
  ELSE q

\* the rows of .or(`username.ilike.%${query}%, ...`)
SearchRows(q) == {n \in Usernames : includes(n, q)}

\* the query is too short to search for
TooShort(q) == Len(trim(q)) < 2

\* onChange: setQuery, then the render runs the effect's cleanup (clearTimeout) and the
\* effect (setTimeout)
SetQuery(q) ==
  /\ q # search.query
  /\ search' = [search EXCEPT !.query = q, !.debounce = TRUE, !.answered = "none"]
  /\ UNCHANGED <<carousel, post, chat, url, classified, viewer>>

\* a character is typed or the last one deleted
TypeQuery ==
  \/ \E c \in QueryChars : /\ Len(search.query) < MaxQueryLen
                             /\ SetQuery(Append(search.query, c))
  \/ /\ search.query # <<>>
     /\ SetQuery(SubSeq(search.query, 1, Len(search.query) - 1))

\* the debounce timer fires: searchUsers runs to its return or to its await
SearchUsers ==
  /\ search.debounce
  /\ IF TooShort(search.query)
     THEN search' = [search EXCEPT !.debounce = FALSE, !.results = {}, !.isOpen = FALSE]
     ELSE /\ search.sent < MaxSearches
          /\ search' = [search EXCEPT
                          !.debounce = FALSE, !.isLoading = TRUE, !.sent = search.sent + 1,
                          !.calls = search.calls \cup
                                      {[id |-> search.sent + 1, query |-> search.query]}]
  /\ UNCHANGED <<carousel, post, chat, url, classified, viewer>>

\* a request is answered and searchUsers continues after its await
SearchLanded(q, out) ==
  /\ q \in search.calls
  /\ LET got == IF out = "ok"
                THEN [search EXCEPT !.results = SearchRows(q.query), !.isOpen = TRUE]
                ELSE search
     IN  search' = [got EXCEPT !.isLoading = FALSE, !.calls = search.calls \ {q},
                               !.answered = IF q.query = search.query /\ ~search.debounce
                                            THEN out ELSE search.answered]
  /\ UNCHANGED <<carousel, post, chat, url, classified, viewer>>

\* mousedown outside the container
ClickOutside ==
  /\ search.isOpen
  /\ search' = [search EXCEPT !.isOpen = FALSE]
  /\ UNCHANGED <<carousel, post, chat, url, classified, viewer>>

\* the input gets the focus
FocusInput ==
  /\ Len(search.query) >= 2 /\ ~search.isOpen
  /\ search' = [search EXCEPT !.isOpen = TRUE]
  /\ UNCHANGED <<carousel, post, chat, url, classified, viewer>>

InitSearch ==
  /\ ViewerIdle
  /\ ChatIdle
  /\ MediaIdle
  /\ CarouselIdle
  /\ PostIdle
  /\ SearchMounted

NextSearch ==
  \/ TypeQuery
  \/ SearchUsers
  \/ \E q \in search.calls, out \in {"ok", "err"} : SearchLanded(q, out)
  \/ ClickOutside
  \/ FocusInput

SpecSearch == InitSearch /\ [][NextSearch]_vars

\* ------------------------------------------------------------ StartChat.handleStartChat
MaxConversations == 2

\* policy "Users can view their own participation": the rows uid may select
CanSelect(uid, row) == row.user_id = uid

\* .from('conversation_participants').select('conversation_id').eq('user_id', of)
\*   [.in('conversation_id', ids)] as seen by uid
ParticipantRows(uid, of, ids) ==
  {p \in chat.participants : p.user_id = of /\ p.conversation_id \in ids /\ CanSelect(uid, p)}

\* session s goes on with handleStartChat
ChatStep(s, now) ==
  /\ chat' = [chat EXCEPT !.sess[s] = now]
  /\ UNCHANGED <<carousel, post, search, url, classified, viewer>>

\* the button is clicked (it is disabled while loading); the first query is sent
HandleStartChat(s) ==
  /\ user /\ UserOf(s) # targetUserId(s)
  /\ chat.sess[s].pc = "idle"
  /\ ChatStep(s, [ChatIdleSession EXCEPT !.pc = "mine"])

\* the query for the user's own conversations answers
MyConversations(s, out) ==
  /\ chat.sess[s].pc = "mine"
  /\ LET mine == {p.conversation_id :
                    p \in ParticipantRows(UserOf(s), UserOf(s), chat.conversations)}
     IN  ChatStep(s, IF out = "ok" /\ mine # {}
                     THEN [chat.sess[s] EXCEPT !.pc = "existing", !.conversationIds = mine]
                     ELSE [chat.sess[s] EXCEPT !.pc = "create"])

\* the query for the target user's rows in those conversations answers
ExistingConv(s, out) ==
  /\ chat.sess[s].pc = "existing"
  /\ LET found == {p.conversation_id :
                     p \in ParticipantRows(UserOf(s), targetUserId(s),
                                           chat.sess[s].conversationIds)}
     IN  IF out = "ok" /\ found # {}
         THEN \E c \in found : ChatStep(s, [chat.sess[s] EXCEPT !.pc = "idle", !.at = c])
         ELSE ChatStep(s, [chat.sess[s] EXCEPT !.pc = "create"])

\* the insert into conversations answers
CreateConversation(s, out) ==
  /\ chat.sess[s].pc = "create"
  /\ IF out = "ok"
     THEN LET id == Cardinality(chat.conversations) + 1
          IN  /\ id <= MaxConversations
              /\ chat' = [chat EXCEPT !.conversations = chat.conversations \cup {id},
                                       !.sess[s] = [chat.sess[s] EXCEPT !.pc = "participants",
                                                                        !.newConv = id]]
     ELSE chat' = [chat EXCEPT !.sess[s] = [chat.sess[s] EXCEPT !.pc = "idle", !.notice = TRUE]]
  /\ UNCHANGED <<carousel, post, search, url, classified, viewer>>

\* the insert of the two participant rows answers
AddParticipants(s, out) ==
  /\ chat.sess[s].pc = "participants"
  /\ LET c == chat.sess[s].newConv
     IN  IF out = "ok"
         THEN chat' = [chat EXCEPT
                         !.participants = chat.participants \cup
                            {[conversation_id |-> c, user_id |-> UserOf(s)],
                             [conversation_id |-> c, user_id |-> targetUserId(s)]},
                         !.sess[s] = [chat.sess[s] EXCEPT !.pc = "idle", !.at = c]]
         ELSE chat' = [chat EXCEPT
                         !.sess[s] = [chat.sess[s] EXCEPT !.pc = "idle", !.notice = TRUE]]
  /\ UNCHANGED <<carousel, post, search, url, classified, viewer>>

InitChat ==
  /\ ViewerIdle
  /\ MediaIdle
  /\ CarouselIdle
  /\ PostIdle
  /\ SearchMounted
  /\ ChatIdle

NextChat ==
  \/ \E s \in Sessions : HandleStartChat(s)
  \/ \E s \in Sessions, out \in {"ok", "err"} : MyConversations(s, out)
  \/ \E s \in Sessions, out \in {"ok", "err"} : ExistingConv(s, out)
  \/ \E s \in Sessions, out \in {"ok", "err"} : CreateConversation(s, out)
  \/ \E s \in Sessions, out \in {"ok", "err"} : AddParticipants(s, out)

SpecChat == InitChat /\ [][NextChat]_vars

\* ------------------------------------------------------------ navigation claims
\* every update is rendered and every effect has run
Settled == Mounted /\ ~mustRender /\ ~Dirty

\* The cursor goToNextStory is specified to produce from (u, s): [sel, idx], Null = Closed
AdvanceTarget(u, s) ==
  IF s + 1 < StoriesLen(u) THEN [sel |-> u, idx |-> s + 1]
  ELSE IF u + 1 < NumUsers THEN [sel |-> u + 1, idx |-> 0]
  ELSE [sel |-> Null, idx |-> 0]

\* C1: Advance from a rendered cursor (u, s) gives (u, s+1) with progress 0 if s+1 < len(stories
\* of u), else (u+1, 0) with progress 0 if a next user exists, else the viewer is Closed; it
\* never wraps around to the first user.
C1_Advance ==
  (last.adv /\ last.fresh) =>
     LET t == AdvanceTarget(last.u, last.s)
     IN IF t.sel = Null THEN selected = Null
        ELSE selected = t.sel /\ currentIndex = t.idx /\ progress = 0

C1_Witness ==
  /\ last.op = "next" /\ last.fresh /\ selected = Null
  /\ NumUsers >= 2 /\ last.u = NumUsers - 1 /\ last.s = StoriesLen(last.u) - 1

\* C2: from (0,0), Advances each applied to a rendered cursor close the viewer after exactly
\* totalStoryCount(S) steps and not earlier; after k steps the cursor is on the k-th story of
\* the concatenated sequences.
C2_AdvanceCount ==
  run.pure =>
     IF selected = Null THEN run.steps = totalStoryCount(all)
     ELSE /\ run.steps < totalStoryCount(all)
          /\ ValidIndex(selected, currentIndex)
          /\ StoryId(selected, currentIndex) = run.steps

C2_Witness ==
  /\ run.pure /\ selected = Null /\ run.steps = totalStoryCount(all)
  /\ NumUsers >= 2 /\ totalStoryCount(all) >= 3

\* C3: Retreat from (u, 0) with u > 0 leaves the viewer, once settled, on the LAST story of
\* user u-1 with progress 0.
C3_RetreatToLast ==
  (last.op = "prev" /\ last.fresh /\ last.s = 0 /\ last.u > 0 /\ Settled) =>
     /\ selected = last.u - 1
     /\ currentIndex = StoriesLen(last.u - 1) - 1
     /\ progress = 0

\* C4: Advance (not closing) followed by Retreat returns the cursor to the position before
\* the Advance, also across a user boundary.
C4_RetreatUndoesAdvance ==
  (last.op = "prev" /\ last.fresh /\ last.pu # Null /\ Settled) =>
     selected = last.pu /\ currentIndex = last.ps

\* C5: in every committed render of an open viewer currentIndex is a valid index into the
\* stories of the active user, so currentStory is defined.
C5_IndexValid == r.open => (ValidIndex(r.u, r.i) /\ ~crashed)

\* C10: each story transition is caused by at most one Advance: when a progress source (timer
\* expiry or 'ended') and a user navigation event have both called goToNextStory before the
\* re-render, the cursor is still exactly one Advance away from the rendered story.
C10_OneAdvancePerTransition ==
  (Mounted /\ advs >= 2) =>
     LET t == AdvanceTarget(r.u, r.i)
     IN IF t.sel = Null THEN selected = Null
        ELSE selected = t.sel /\ currentIndex = t.idx

\* C11: at most one progress source is live: the interval timer runs only while the rendered
\* story is an image, the timeupdate/ended listeners are attached only while it is a video, and
\* the two are never live together.
C11_OneProgressSource ==
  /\ ~(timerOn /\ listenersOn)
  /\ timerOn => (r.open /\ ~isVideo(r.u, r.i))
  /\ listenersOn => (r.open /\ isVideo(r.u, r.i))

\* the viewer moved from an image story, whose timer ran, to a video story
C11_Witness ==
  /\ Mounted /\ listenersOn /\ ~timerOn /\ ~r.paused
  /\ r.i > 0 /\ ~isVideo(r.u, r.i - 1) /\ last.op = "tick" /\ last.adv

\* the step handles an event of one of the given kinds
Handles(ops) == last'.op \in ops /\ r' = r /\ (last' # last \/ progress' # progress)

C14_AdvanceAtHundred ==
  [][(Handles({"tick"}) /\ progress < 100) =>
        IF progress + increment >= 100 THEN last'.adv /\ progress' = 0
        ELSE progress' = progress + increment /\ ~last'.adv]_vars

\* C15: while the paused flag is set (and rendered), no timer or media event is handled, so
\* progress does not change and no automatic Advance fires, in image and in video mode; the
\* pause toggle itself never changes progress.
C15_PausedFreezes ==
  [][/\ (Mounted /\ isPaused /\ r.paused) => ~Handles({"tick", "time", "ended"})
     /\ Handles({"pause"}) => progress' = progress]_vars

\* C16: Retreat at (0, 0) is a no-op: user index, story index and open status are unchanged;
\* Retreat never calls onClose, from any position.
C16_RetreatAtStart ==
  (last.op = "prev" /\ last.fresh) =>
     /\ selected # Null
     /\ (last.u = 0 /\ last.s = 0) => (selected = 0 /\ currentIndex = 0 /\ ~crashed)

C16_Witness ==
  /\ last.op = "prev" /\ last.fresh /\ last.u = 0 /\ last.s = 0
  /\ Mounted /\ ~mustRender /\ ~Dirty /\ NumUsers >= 2 /\ progress > 0

\* C17: Retreat from (u, s) with s >= 1 moves to (u, s-1) of the same user with progress 0.
C17_RetreatWithinUser ==
  (last.op = "prev" /\ last.fresh /\ last.s >= 1) =>
     (selected = last.u /\ currentIndex = last.s - 1 /\ progress = 0)

C17_Witness ==
  /\ last.op = "prev" /\ last.fresh /\ last.s = 2 /\ last.u = 0
  /\ Mounted /\ ~mustRender /\ ~Dirty /\ r.i = 1

\* C21: external selection of a different user sequence sets the cursor to (selected user,
\* story 0, progress 0), once rendered; the timer of the previously active story is cancelled.
C21_SelectResets ==
  (last.op = "select" /\ last.fresh /\ r.open /\ ~mustRender /\ ~Dirty) =>
     /\ ~crashed
     /\ r.u = selected /\ currentIndex = 0 /\ progress = 0
     /\ timerOn = TimerEffect(selected, 0, isPaused)

\* the same, for the selections whose first render does not throw
C21_NoCrashCase ==
  (last.op = "select" /\ last.fresh /\ r.open /\ ~mustRender /\ ~Dirty /\ ~crashed) =>
     /\ r.u = selected /\ currentIndex = 0 /\ progress = 0
     /\ timerOn = TimerEffect(selected, 0, isPaused)

\* C22: progress lies in [0, 100] in every reachable state, in image mode, in video mode and
\* across switches between the two.
C22_ProgressRange == progress >= 0 /\ progress <= 100

\* an image story at full progress in a list that also holds a video, reached by the timer
C22_Witness ==
  /\ Mounted /\ timerOn /\ progress = 100 /\ last.op = "tick"
  /\ Videos(all) = 1 /\ r.i > 0 /\ isVideo(r.u, r.i - 1)

\* C23: in video mode the interval timer does not run, progress is set only from the media
\* position (currentTime / duration x 100), and 'ended' triggers exactly the Advance, which
\* closes the viewer when the video is the last story of the last user.
C23_VideoMode ==
  [][ListenersLive =>
       /\ ~timerOn /\ ~Handles({"tick"})
       /\ (r' = r /\ ~mustRender' /\ progress' # progress) =>
             \/ /\ last'.op = "time"
                /\ progress' * VideoDur <= video'.t * 100
                /\ video'.t * 100 < (progress' + 1) * VideoDur
             \/ last'.op = "ended" /\ progress' = 0
       /\ (Handles({"ended"}) /\ CursorFresh) =>
             LET t == AdvanceTarget(r.u, r.i)
             IN IF t.sel = Null THEN selected' = Null /\ currentIndex' = currentIndex
                ELSE selected' = t.sel /\ currentIndex' = t.idx /\ progress' = 0]_vars

\* the video that is the last story of the last user ended and the viewer closed
C23_Witness ==
  /\ last.op = "ended" /\ last.fresh /\ selected = Null
  /\ NumUsers >= 2 /\ last.u = NumUsers - 1 /\ last.s = StoriesLen(last.u) - 1
  /\ progress = 100

\* ------------------------------------------------------------------ like claims
\* the step is the continuation of handleLike for request q, in a mounted viewer
LandsToggle(q) ==
  /\ q.kind # "fetch" /\ q.st # "sent" /\ ~q.orphan /\ ~crashed
  /\ net' = net \ {q}
  /\ lk'.op = "land" /\ lk'.kind = q.kind /\ lk'.story = q.story /\ ~lk'.orphan

ErrorNotices == {"Failed to like story", "Failed to unlike story"}

\* C6: when the remote call of a like or unlike fails, the entry of the story the toggle was
\* issued for is set back to exactly the (isLiked, count) pair the toggle found (the storyLike of
\* the render the click was made on), one error notice is shown, and no request is issued.
C6_RollbackExact ==
  [][\A q \in net : (LandsToggle(q) /\ q.st = "err") =>
        /\ likes'[q.story] = q.pre
        /\ lk'.notice \in ErrorNotices
        /\ (lk'.notice = "Failed to unlike story") = q.pre.isLiked
        /\ nextId' = nextId]_vars

\* a failed like and a failed unlike have been rolled back
C6_Witness ==
  /\ Mounted /\ lk.op = "land" /\ lk.err /\ ~lk.orphan
  /\ lk.kind = "delete" /\ lk.pre.isLiked /\ lk.pre.count >= 1
  /\ likes[lk.story] = lk.pre /\ r.likes[lk.story] = Flip(lk.pre)

\* C7: a single toggle on story X, issued with no other toggle on X in flight, whose remote call
\* succeeded, leaves the local isLiked of X equal to the existence of the remote like row once
\* no response for X is outstanding, also when the fetch for X was in flight at the click.
C7_SingleToggleConverges ==
  \A x \in StoryIds :
     (/\ Mounted /\ ~mustRender /\ ~Dirty
      /\ tg[x].n = 1 /\ tg[x].alone /\ tg[x].ok = 1
      /\ \A q \in net : q.story # x)
     => (Eff(likes[x]).isLiked = (x \in rows))

\* C8: toggles on one story are not serialized: when a second toggle was issued while the first
\* was in flight, the two remote operations took effect in the reverse order of issue and both
\* responses landed without error, the local isLiked differs from the existence of the row.
LostUpdateRun(x) ==
  /\ Mounted
  /\ tg[x].n = 2 /\ ~tg[x].alone /\ tg[x].rev /\ tg[x].ok = 2 /\ tg[x].clean
  /\ \A q \in net : q.story # x

C8_LostUpdate ==
  \A x \in StoryIds : LostUpdateRun(x) => (Eff(likes[x]).isLiked # (x \in rows))

C8_Witness ==
  \E x \in StoryIds : LostUpdateRun(x) /\ ~Eff(likes[x]).isLiked /\ x \in rows

\* C9: a like/unlike response, success or failure, landing after the viewer moved to another
\* story changes only the entry of the story the toggle was issued for.
C9_OnlyOwnEntry ==
  [][\A q \in net : LandsToggle(q) =>
        \A y \in StoryIds \ {q.story} : likes'[y] = likes[y]]_vars

\* a failed toggle has been rolled back while another story is shown
C9_Witness ==
  /\ Mounted /\ ~mustRender /\ lk.op = "land" /\ lk.kind # "fetch" /\ lk.err /\ ~lk.orphan
  /\ StoryId(r.u, r.i) # lk.story
  /\ likes[lk.story] = lk.pre /\ r.likes[lk.story] = Flip(lk.pre)

\* C13: Close cancels every timer and listener the viewer started: once the viewer is closed
\* and unmounted nothing of it is pending, the 400 ms like-animation timeout included.
C13_CloseCancelsAll ==
  (~r.open /\ selected = Null) => (~timerOn /\ ~listenersOn /\ ~keysOn /\ animTimers = 0)

\* the step is a click on the like button
LikeClick ==
  /\ Mounted /\ ~mustRender /\ mustRender'
  /\ selected' = selected /\ currentIndex' = currentIndex /\ isPaused' = isPaused
  /\ lk'.op \in {"rejected", "toggle"}
  /\ lk' # lk \/ lk.op = "rejected"

\* C18: a like toggle attempted without an authenticated viewer is rejected: the sign-in
\* notice is shown, the likes map is unchanged for every story, no insert or delete is issued.
C18_AuthRequired ==
  [][(LikeClick /\ ~r.user) =>
        /\ lk'.notice = "Please sign in to like stories"
        /\ likes' = likes
        /\ net' = net /\ nextId' = nextId /\ rows' = rows]_vars

\* a signed-out viewer clicked like on a story whose entry had been fetched as liked
C18_Witness ==
  /\ Mounted /\ mustRender /\ ~r.user /\ ~user
  /\ lk.op = "rejected" /\ lk.notice = "Please sign in to like stories"
  /\ \E x \in StoryIds : x = StoryId(r.u, r.i) /\ likes[x] # NoEntry /\ x \in rows

\* C19: on an authenticated toggle the entry of the story is flipped (isLiked negated, count +1
\* when liking, -1 when unliking) in the click itself, while the remote call is still
\* unanswered, and the remote operation is an insert exactly when the pre-toggle isLiked was
\* false and a delete exactly when it was true.
C19_OptimisticFlip ==
  [][(LikeClick /\ nextId' # nextId) =>
        LET x == StoryId(r.u, r.i)
            pre == Eff(r.likes[x])
        IN /\ r.user
           /\ likes'[x].isLiked = ~pre.isLiked
           /\ likes'[x].count = IF pre.isLiked THEN pre.count - 1 ELSE pre.count + 1
           /\ \A y \in StoryIds \ {x} : likes'[y] = likes[y]
           /\ Cardinality(net' \ net) = 1 /\ net \subseteq net'
           /\ \A q \in net' \ net :
                 /\ q.story = x /\ q.st = "sent"
                 /\ (q.kind = "insert") = ~pre.isLiked
                 /\ (q.kind = "delete") = pre.isLiked
           /\ rows' = rows]_vars

\* an unlike has been clicked and its delete is not yet answered
C19_Witness ==
  /\ Mounted /\ mustRender /\ lk.op = "toggle"
  /\ \E q \in net : /\ q.kind = "delete" /\ q.st = "sent" /\ q.story = lk.story
                     /\ likes[q.story] = [isLiked |-> FALSE, count |-> q.pre.count - 1]
                     /\ q.pre.isLiked /\ q.story \in rows

\* the second toggle on story x of this viewer has just been clicked: its request is unanswered
SecondToggle(x) ==
  /\ Mounted /\ tg[x].n = 2 /\ lk.op = "toggle" /\ lk.story = x
  /\ \E q \in net : q.kind # "fetch" /\ q.story = x /\ q.st = "sent" /\ q.id = nextId - 1

\* C20 as stated: for every initial (isLiked, count), two consecutive toggles on a story, the
\* second after the re-render that follows the first, return the local isLiked and count to
\* their pre-toggle values, whether or not the remote calls succeed.
C20_TwoTogglesRestore ==
  \A x \in StoryIds : SecondToggle(x) => (likes[x] = tg[x].first)

\* C20 amended: ... provided the entry shown at the second click is still the one the first
\* toggle wrote (no rollback of a failed first call and no fetch result replaced it).
C20_TwoTogglesRestoreChained ==
  \A x \in StoryIds : (SecondToggle(x) /\ tg[x].chain) => (likes[x] = tg[x].first)

\* like and unlike again of a story that was shown as liked
C20_Witness ==
  \E x \in StoryIds : /\ SecondToggle(x) /\ tg[x].chain
                       /\ tg[x].first.isLiked /\ tg[x].first.count >= 1
                       /\ likes[x] = tg[x].first
                       /\ \E q \in net : q.kind = "delete" /\ q.st = "err"


\* ------------------------------------------------------------ classifier claims
\* the position of the last occurrence of character c in s, 0 when there is none
LastIndexOf(s, c) ==
  LET at == {i \in 1..Len(s) : s[i] = c}
  IN  IF at = {} THEN 0 ELSE CHOOSE i \in at : \A j \in at : j <= i

\* the file name of a URL: what follows its last "/"
FileName(u) == SubSeq(u, LastIndexOf(u, "/") + 1, Len(u))

\* the extension of the file name, with its dot and in lower case; <<>> when it has none
Extension(u) ==
  LET f == FileName(u)
      d == LastIndexOf(f, ".")
  IN  IF d = 0 THEN <<>> ELSE toLowerCase(SubSeq(f, d, Len(f)))

HasVideoExtension(u) == \E e \in 1..Len(videoExtensions) : Extension(u) = videoExtensions[e]

\* C24: the classifier returns a result for every URL, and the result is video exactly when
\* the file name's extension, compared without case, is one of the six video extensions;
\* every URL with another extension or none is an image.
C24_ByFileExtension ==
  classified # "none" => (classified = "video" <=> HasVideoExtension(url))

\* the part of C24 the code satisfies: a URL with a video extension is classified as video
C24_VideoExtensionIsVideo ==
  (classified # "none" /\ HasVideoExtension(url)) => classified = "video"


\* ------------------------------------------------------------ carousel claims
\* C25: the list built by fetchStories holds each owner at most once, every sequence in it
\* has at least one story, the stories of each sequence are in ascending created_at order,
\* and the signed-in user's own sequence, when present, is at position 0.
C25_StoryList ==
  LET list == carousel.usersWithStories
  IN  /\ \A i, j \in 1..Len(list) : i # j => list[i].user_id # list[j].user_id
      /\ \A i \in 1..Len(list) :
           /\ Len(list[i].stories) >= 1
           /\ \A k \in 1..(Len(list[i].stories) - 1) :
                list[i].stories[k].created_at <= list[i].stories[k + 1].created_at
           /\ list[i].user_id = Me => i = 1

\* a list of two users built from profiles that did not come with the own one first, the
\* own sequence sorted from two stories of different age
C25_Witness ==
  LET list == carousel.usersWithStories
  IN  /\ carousel.pc = "done" /\ Len(list) = 2
      /\ carousel.profiles[1] # Me /\ list[1].user_id = Me
      /\ Len(list[1].stories) = 2
      /\ list[1].stories[1].created_at < list[1].stories[2].created_at


\* ------------------------------------------------------------ likes-map claims
\* an entry of the likes map is well formed: its count is not negative, and at least 1 when
\* it says the viewer likes the story
WellFormed(e) == e.count >= 0 /\ (e.isLiked => e.count >= 1)

\* C26: under any interleaving of fetches, toggles and their continuations, every entry of
\* the likes map, as set and as rendered, has count >= 0, and count >= 1 when isLiked.
C26_EntriesWellFormed ==
  \A x \in StoryIds :
    /\ likes[x] # NoEntry => WellFormed(likes[x])
    /\ r.likes[x] # NoEntry => WellFormed(r.likes[x])

\* an unlike that took the count to 0 failed while a second toggle was in flight, and its
\* continuation has put the entry back
C26_Witness ==
  \E x \in StoryIds :
    /\ tg[x].n = 2 /\ lk.op = "land" /\ lk.err /\ lk.kind = "delete" /\ lk.story = x
    /\ likes[x] = [isLiked |-> TRUE, count |-> 1]
    /\ \E q \in net : q.kind = "insert" /\ q.story = x /\ q.st = "sent"


\* ------------------------------------------------------------ pause claims
\* C27: whenever a video story is the active story (rendered, its effects run), isPaused is
\* true exactly when the video element is paused, after any Space presses and navigations.
C27_PausedMatchesVideo ==
  (Settled /\ ~crashed /\ isVideo(r.u, r.i)) => (isPaused = video.paused)


\* ------------------------------------------------------------ PostCard claims
\* C28: likesCount is never negative and, once every like/unlike response has landed, equals
\* the initial count plus the net number of toggles whose remote call succeeded, under any
\* interleaving of toggles and responses.
C28_LikesCount ==
  /\ post.likesCount >= 0
  /\ post.calls = {} => post.likesCount = post.initial + post.netOk

\* the part of C28 the code satisfies: the count once all responses have landed
C28_SettledCount ==
  post.calls = {} => post.likesCount = post.initial + post.netOk


\* ------------------------------------------------------------ UserSearch claims
\* no request is in flight and no debounce timer is pending
SearchQuiet == search.calls = {} /\ ~search.debounce

\* C29: once all in-flight search requests have completed, the displayed results are the
\* response to the most recent query (when its request was answered without error), and
\* when the latest query is shorter than 2 characters the results are empty and the
\* dropdown is closed.
C29_LatestQueryWins ==
  SearchQuiet =>
    IF Len(search.query) < 2 THEN search.results = {} /\ ~search.isOpen
    ELSE search.answered = "ok" => search.results = SearchRows(search.query)

\* C29, the first half alone: an older response never replaces the results of a newer query
C29_NoOlderResponse ==
  (SearchQuiet /\ search.answered = "ok") => search.results = SearchRows(search.query)


\* ------------------------------------------------------------ StartChat claims
\* the conversations whose participants include both A and B
SharedConversations ==
  {c \in chat.conversations :
     \A u \in {"A", "B"} : [conversation_id |-> c, user_id |-> u] \in chat.participants}

====
